---- MODULE Spec2Model ----
(***************************************************************************)
(* The two event-sourced aggregates of the repository's examples:          *)
(*   examples/eventstore-backend/main.rs       the bank account            *)
(*   examples/eventstore-step-by-step/main.rs  the task list               *)
(* Each main() loads its aggregate by folding the events of one stream,    *)
(* validates a batch of commands against the loaded aggregate and appends  *)
(* the accepted events to the stream.  The stream lives in EventStore and  *)
(* outlives the process, so main() may run again on what it wrote.         *)
(***************************************************************************)
EXTENDS Integers, Sequences, FiniteSets

\* Width of usize and of i64 in bits.  The build has 64; the model keeps the
\* two widths equal, as the build does, and scales them down.
WordBits == 3

\* Longest stream the model lets the programs build.
MaxLog == 3

\* Longest command batch one run of main() is given.
MaxBatch == 2

VARIABLES
    prog,       \* which example runs: "bank" or "tasks"
    log,        \* the stream in EventStore: the persisted events, in append order
    pc,         \* where main() is: "idle", "load", "process", "done", "fatal"
    pos,        \* number of stream items the projection fold has consumed
    state,      \* the fold's accumulator; once loaded, main's `account` / `state`
    loaded,     \* TRUE once the fold has returned its state to main
    cmds,       \* the command batch of this run
    idx,        \* number of commands of the batch handled so far
    outcomes,   \* per handled command, the command and what the decision function returned
    pending,    \* bank: encoded events accepted so far, not yet written (the chunk)
    other       \* a second run of the bank's main() on the same stream, off unless
                \* the specification has two writers: its pc, pos, state, outcomes
                \* and pending

vars == <<prog, log, pc, pos, state, loaded, cmds, idx, outcomes, pending, other>>

----------------------------------------------------------------------------
(* Machine integers *)

RECURSIVE Pow2(_)
Pow2(n) == IF n = 0 THEN 1 ELSE 2 * Pow2(n - 1)

UsizeMax == Pow2(WordBits) - 1
I64Max == Pow2(WordBits - 1) - 1
I64Min == 0 - Pow2(WordBits - 1)

InI64(x) == I64Min <= x /\ x <= I64Max

\* Two's-complement wrap of a mathematical integer into i64.
WrapI64(x) == ((x - I64Min) % Pow2(WordBits)) + I64Min

\* `amount as i64`: a usize reinterpreted as i64 of the same width.
AsI64(a) == IF a > I64Max THEN a - Pow2(WordBits) ELSE a

----------------------------------------------------------------------------
(* Inputs *)

\* The account of the bank example (main.rs:154).
AccountId == "12345-6789-00000"

\* Uuid values; Uuid::new_v4() draws any of them.
Uuids == {"u1", "u2"}

\* usize amounts the commands carry: zero, small ones and the largest usize.
Amounts == {0, 1, 2, UsizeMax}

BankCommandVariants == {"WithdrawFunds", "DepositFunds"}

\* struct Command { correlation, tpe: BankCommand }
BankCommands ==
    [correlation : Uuids,
     tpe : [variant : BankCommandVariants, account_id : {AccountId}, amount : Amounts]]

\* Task ids, names and due dates (Option<DateTime<Utc>>) the commands carry.
TaskIds == {42, 7}
TaskNames == {"x", "y"}
DueDates == {"None", "Some(d)"}

\* enum Command of the task list, with the cmd_args structs.
TaskCommands ==
    [variant : {"AddTask"}, args : [id : TaskIds, name : TaskNames, due_date : DueDates]]
    \cup [variant : {"RemoveTask", "CompleteTask"}, args : [id : TaskIds]]
    \cup [variant : {"ClearAllTasks"}, args : {[none |-> TRUE]}]
    \cup [variant : {"ChangeTaskDueDate"}, args : [id : TaskIds, due_date : DueDates]]

SeqsUpTo(S, n) == UNION {[1..k -> S] : k \in 0..n}

----------------------------------------------------------------------------
(* examples/eventstore-backend/main.rs: the bank account *)

\* AccountData::new
AccountData_new(id) == [account_id |-> id, balance |-> 0, generation |-> 0]

\* BankEvent::into_eventstore_event: the event type tag and the JSON payload.
BankEvent_into_eventstore_event(event) ==
    IF event.variant = "FundsWithdrawn"
    THEN [event_type |-> "funds-withdrawn", data |-> event.payload]
    ELSE [event_type |-> "funds-deposited", data |-> event.payload]

\* as_json(): the payload deserializes into the payload struct of the variant.
IsBankPayload(data) ==
    {"account_id", "amount", "correlation"} \subseteq DOMAIN data

\* BankEvent::from_eventstore_event returns (neither unreachable!() nor expect panics).
BankEvent_decodes(item) ==
    /\ item.event_type \in {"funds-withdrawn", "funds-deposited"}
    /\ IsBankPayload(item.data)

\* BankEvent::from_eventstore_event, where it returns.
BankEvent_from_eventstore_event(item) ==
    IF item.event_type = "funds-withdrawn"
    THEN [variant |-> "FundsWithdrawn", payload |-> item.data]
    ELSE [variant |-> "FundsDeposited", payload |-> item.data]

\* The mathematical value of the balance update of apply_bank_event.
BankNewBalance(self, event) ==
    IF event.variant = "FundsWithdrawn"
    THEN self.balance - AsI64(event.payload.amount)
    ELSE self.balance + AsI64(event.payload.amount)

\* apply_bank_event overflows: `-=` / `+=` on the i64 balance, `+= 1` on the usize
\* generation.  A build with overflow checks panics there, one without wraps.
apply_bank_event_overflows(self, event) ==
    \/ ~InI64(BankNewBalance(self, event))
    \/ self.generation + 1 > UsizeMax

\* apply_bank_event with `self.generation += 1` missing in the deposit arm.
apply_bank_event_DepositKeepsGeneration(self, event) ==
    [self EXCEPT !.balance = WrapI64(BankNewBalance(self, event)),
                 !.generation = IF event.variant = "FundsWithdrawn"
                                THEN (self.generation + 1) % Pow2(WordBits)
                                ELSE self.generation]

\* AccountData::apply_bank_event (wrapping where it overflows).
apply_bank_event(self, event) ==
    [self EXCEPT !.balance = WrapI64(BankNewBalance(self, event)),
                 !.generation = (self.generation + 1) % Pow2(WordBits)]

\* handle_bank_command overflows: `self.balance - (amount as i64)`.
handle_bank_command_overflows(self, cmd) ==
    /\ cmd.tpe.variant = "WithdrawFunds"
    /\ ~InI64(self.balance - AsI64(cmd.tpe.amount))

\* handle_bank_command with a guard that lets the balance go one below zero.
handle_bank_command_AllowsMinusOne(self, cmd, new_v4) ==
    IF cmd.tpe.variant = "DepositFunds"
    THEN [ok |-> TRUE,
          event |-> [variant |-> "FundsDeposited",
                     payload |-> [account_id |-> cmd.tpe.account_id,
                                  amount |-> cmd.tpe.amount,
                                  correlation |-> cmd.correlation]]]
    ELSE IF WrapI64(self.balance - AsI64(cmd.tpe.amount)) < -1
         THEN [ok |-> FALSE,
               error |-> [correlation |-> new_v4, tpe |-> "NotEnoughFunds"]]
         ELSE [ok |-> TRUE,
               event |-> [variant |-> "FundsWithdrawn",
                          payload |-> [account_id |-> cmd.tpe.account_id,
                                       amount |-> cmd.tpe.amount,
                                       correlation |-> cmd.correlation]]]

\* AccountData::handle_bank_command; new_v4 is what Uuid::new_v4() returns.
handle_bank_command(self, cmd, new_v4) ==
    IF cmd.tpe.variant = "DepositFunds"
    THEN [ok |-> TRUE,
          event |-> [variant |-> "FundsDeposited",
                     payload |-> [account_id |-> cmd.tpe.account_id,
                                  amount |-> cmd.tpe.amount,
                                  correlation |-> cmd.correlation]]]
    ELSE IF WrapI64(self.balance - AsI64(cmd.tpe.amount)) < 0
         THEN [ok |-> FALSE,
               error |-> [correlation |-> new_v4, tpe |-> "NotEnoughFunds"]]
         ELSE [ok |-> TRUE,
               event |-> [variant |-> "FundsWithdrawn",
                          payload |-> [account_id |-> cmd.tpe.account_id,
                                       amount |-> cmd.tpe.amount,
                                       correlation |-> cmd.correlation]]]

----------------------------------------------------------------------------
(* examples/eventstore-step-by-step/main.rs: the task list *)

\* State::default
State_default == [tasks |-> <<>>]

\* Event::into_eventstore_event
Event_into_eventstore_event(event) ==
    CASE event.variant = "TaskAdded" -> [event_type |-> "task-added", data |-> event.args]
      [] event.variant = "TaskRemoved" -> [event_type |-> "task-removed", data |-> event.args]
      [] event.variant = "TaskCompleted" -> [event_type |-> "task-completed", data |-> event.args]
      [] event.variant = "AllTasksCleared" -> [event_type |-> "all-tasks-cleared", data |-> [none |-> TRUE]]
      [] event.variant = "TaskDueDateChanged" -> [event_type |-> "task-due-date-changed", data |-> event.args]

\* The fields of the cmd_args struct as_json() reads for each event type.
TaskPayloadFields(event_type) ==
    CASE event_type = "task-added" -> {"id", "name", "due_date"}
      [] event_type = "task-removed" -> {"id"}
      [] event_type = "task-completed" -> {"id"}
      [] event_type = "all-tasks-cleared" -> {}
      [] event_type = "task-due-date-changed" -> {"id", "due_date"}

TaskEventTypes ==
    {"task-added", "task-removed", "task-completed", "all-tasks-cleared", "task-due-date-changed"}

\* Event::from_eventstore_event returns (neither unreachable!() nor unwrap panics).
Event_decodes(item) ==
    /\ item.event_type \in TaskEventTypes
    /\ TaskPayloadFields(item.event_type) \subseteq DOMAIN item.data

\* Event::from_eventstore_event, where it returns.
Event_from_eventstore_event(item) ==
    CASE item.event_type = "task-added" -> [variant |-> "TaskAdded", args |-> item.data]
      [] item.event_type = "task-removed" -> [variant |-> "TaskRemoved", args |-> item.data]
      [] item.event_type = "task-completed" -> [variant |-> "TaskCompleted", args |-> item.data]
      [] item.event_type = "all-tasks-cleared" -> [variant |-> "AllTasksCleared", args |-> [none |-> TRUE]]
      [] item.event_type = "task-due-date-changed" -> [variant |-> "TaskDueDateChanged", args |-> item.data]

\* only_if_task_does_not_already_exist with a loop that skips the first task.
only_if_task_does_not_already_exist_SkipsFirst(self, id) ==
    \A i \in 2..Len(self.tasks) : self.tasks[i].id # id

\* State::only_if_task_does_not_already_exist
only_if_task_does_not_already_exist(self, id) ==
    \A i \in 1..Len(self.tasks) : self.tasks[i].id # id

\* Index of the first task with this id, 0 when there is none: what
\* iter().find and the `for ... break` loops stop at.
FirstTask(self, id) ==
    IF \E i \in 1..Len(self.tasks) : self.tasks[i].id = id
    THEN CHOOSE i \in 1..Len(self.tasks) :
            /\ self.tasks[i].id = id
            /\ \A j \in 1..(i - 1) : self.tasks[j].id # id
    ELSE 0

\* get_task with a search that starts at the second task.
get_task_SkipsFirst(self, id) ==
    IF \E i \in 2..Len(self.tasks) : self.tasks[i].id = id
    THEN [some |-> TRUE,
          task |-> self.tasks[CHOOSE i \in 2..Len(self.tasks) :
                                 /\ self.tasks[i].id = id
                                 /\ \A j \in 2..(i - 1) : self.tasks[j].id # id]]
    ELSE [some |-> FALSE]

\* State::get_task
get_task(self, id) ==
    IF FirstTask(self, id) = 0
    THEN [some |-> FALSE]
    ELSE [some |-> TRUE, task |-> self.tasks[FirstTask(self, id)]]

\* execute with ClearAllTasks returning no event when there is no task to clear.
execute_ClearsNothingWhenEmpty(self, cmd) ==
    CASE cmd.variant = "AddTask" ->
            IF only_if_task_does_not_already_exist(self, cmd.args.id)
            THEN [ok |-> TRUE, events |-> <<[variant |-> "TaskAdded", args |-> cmd.args]>>]
            ELSE [ok |-> FALSE, error |-> "TaskAlreadyExists"]
      [] cmd.variant = "RemoveTask" ->
            IF get_task(self, cmd.args.id).some
            THEN [ok |-> TRUE, events |-> <<[variant |-> "TaskRemoved", args |-> cmd.args]>>]
            ELSE [ok |-> FALSE, error |-> "TaskDoesNotExist"]
      [] cmd.variant = "ClearAllTasks" ->
            IF self.tasks = <<>>
            THEN [ok |-> TRUE, events |-> <<>>]
            ELSE [ok |-> TRUE,
                  events |-> <<[variant |-> "AllTasksCleared", args |-> [none |-> TRUE]]>>]
      [] cmd.variant = "CompleteTask" ->
            IF get_task(self, cmd.args.id).some
            THEN [ok |-> TRUE, events |-> <<[variant |-> "TaskCompleted", args |-> cmd.args]>>]
            ELSE [ok |-> FALSE, error |-> "TaskDoesNotExist"]
      [] cmd.variant = "ChangeTaskDueDate" ->
            IF get_task(self, cmd.args.id).some
            THEN IF get_task(self, cmd.args.id).task.is_complete
                 THEN [ok |-> FALSE, error |-> "TaskAlreadyFinished"]
                 ELSE [ok |-> TRUE,
                       events |-> <<[variant |-> "TaskDueDateChanged", args |-> cmd.args]>>]
            ELSE [ok |-> FALSE, error |-> "TaskDoesNotExist"]

\* execute without the is_complete check of ChangeTaskDueDate.
execute_IgnoresCompletion(self, cmd) ==
    CASE cmd.variant = "AddTask" ->
            IF only_if_task_does_not_already_exist(self, cmd.args.id)
            THEN [ok |-> TRUE, events |-> <<[variant |-> "TaskAdded", args |-> cmd.args]>>]
            ELSE [ok |-> FALSE, error |-> "TaskAlreadyExists"]
      [] cmd.variant = "RemoveTask" ->
            IF get_task(self, cmd.args.id).some
            THEN [ok |-> TRUE, events |-> <<[variant |-> "TaskRemoved", args |-> cmd.args]>>]
            ELSE [ok |-> FALSE, error |-> "TaskDoesNotExist"]
      [] cmd.variant = "ClearAllTasks" ->
            [ok |-> TRUE, events |-> <<[variant |-> "AllTasksCleared", args |-> [none |-> TRUE]]>>]
      [] cmd.variant = "CompleteTask" ->
            IF get_task(self, cmd.args.id).some
            THEN [ok |-> TRUE, events |-> <<[variant |-> "TaskCompleted", args |-> cmd.args]>>]
            ELSE [ok |-> FALSE, error |-> "TaskDoesNotExist"]
      [] cmd.variant = "ChangeTaskDueDate" ->
            IF get_task(self, cmd.args.id).some
            THEN [ok |-> TRUE,
                  events |-> <<[variant |-> "TaskDueDateChanged", args |-> cmd.args]>>]
            ELSE [ok |-> FALSE, error |-> "TaskDoesNotExist"]

\* State::execute
execute(self, cmd) ==
    CASE cmd.variant = "AddTask" ->
            IF only_if_task_does_not_already_exist(self, cmd.args.id)
            THEN [ok |-> TRUE, events |-> <<[variant |-> "TaskAdded", args |-> cmd.args]>>]
            ELSE [ok |-> FALSE, error |-> "TaskAlreadyExists"]
      [] cmd.variant = "RemoveTask" ->
            IF get_task(self, cmd.args.id).some
            THEN [ok |-> TRUE, events |-> <<[variant |-> "TaskRemoved", args |-> cmd.args]>>]
            ELSE [ok |-> FALSE, error |-> "TaskDoesNotExist"]
      [] cmd.variant = "ClearAllTasks" ->
            [ok |-> TRUE, events |-> <<[variant |-> "AllTasksCleared", args |-> [none |-> TRUE]]>>]
      [] cmd.variant = "CompleteTask" ->
            IF get_task(self, cmd.args.id).some
            THEN [ok |-> TRUE, events |-> <<[variant |-> "TaskCompleted", args |-> cmd.args]>>]
            ELSE [ok |-> FALSE, error |-> "TaskDoesNotExist"]
      [] cmd.variant = "ChangeTaskDueDate" ->
            IF get_task(self, cmd.args.id).some
            THEN IF get_task(self, cmd.args.id).task.is_complete
                 THEN [ok |-> FALSE, error |-> "TaskAlreadyFinished"]
                 ELSE [ok |-> TRUE,
                       events |-> <<[variant |-> "TaskDueDateChanged", args |-> cmd.args]>>]
            ELSE [ok |-> FALSE, error |-> "TaskDoesNotExist"]

\* tasks.retain(|task| task.id != id)
Retain(tasks, id) == SelectSeq(tasks, LAMBDA task : task.id # id)

\* State::apply
apply(self, event) ==
    CASE event.variant = "TaskAdded" ->
            [self EXCEPT !.tasks = Append(@, [id |-> event.args.id,
                                              name |-> event.args.name,
                                              due_date |-> event.args.due_date,
                                              is_complete |-> FALSE])]
      [] event.variant = "TaskRemoved" ->
            [self EXCEPT !.tasks = Retain(@, event.args.id)]
      [] event.variant = "AllTasksCleared" ->
            [self EXCEPT !.tasks = <<>>]
      [] event.variant = "TaskCompleted" ->
            IF FirstTask(self, event.args.id) = 0
            THEN self
            ELSE [self EXCEPT !.tasks[FirstTask(self, event.args.id)].is_complete = TRUE]
      [] event.variant = "TaskDueDateChanged" ->
            IF FirstTask(self, event.args.id) = 0
            THEN self
            ELSE [self EXCEPT !.tasks[FirstTask(self, event.args.id)].due_date =
                                  event.args.due_date]

\* fold(apply, S, events)
RECURSIVE ApplyAll(_, _)
ApplyAll(S, events) ==
    IF events = <<>> THEN S ELSE ApplyAll(apply(S, Head(events)), Tail(events))

----------------------------------------------------------------------------
(* Both examples: the stream, the projection fold, the command batch *)

\* The seed of the fold: AccountData::new(account_id) / State::default().
Seed(p) == IF p = "bank" THEN AccountData_new(AccountId) ELSE State_default

Decodes(p, item) == IF p = "bank" THEN BankEvent_decodes(item) ELSE Event_decodes(item)

Decode(p, item) ==
    IF p = "bank" THEN BankEvent_from_eventstore_event(item)
    ELSE Event_from_eventstore_event(item)

\* One step of the fold closure: state.apply(from_eventstore_event(item)).
FoldStep(p, acc, item) ==
    IF p = "bank" THEN apply_bank_event(acc, Decode(p, item))
    ELSE apply(acc, Decode(p, item))

\* The fold of main() over a whole sequence of stream items.
RECURSIVE FoldFrom(_, _, _)
FoldFrom(p, acc, items) ==
    IF items = <<>> THEN acc
    ELSE FoldFrom(p, FoldStep(p, acc, Head(items)), Tail(items))

Project(p, items) == FoldFrom(p, Seed(p), items)

AllDecode(p, items) == \A i \in 1..Len(items) : Decodes(p, items[i])

\* Events written to the stream by other applications, which these readers
\* cannot decode: an unknown type tag, a payload that is not the struct's.
ForeignEvents(p) ==
    IF p = "bank"
    THEN {[event_type |-> "account-closed", data |-> [account_id |-> AccountId]],
          [event_type |-> "funds-deposited", data |-> [account_id |-> AccountId]]}
    ELSE {[event_type |-> "task-renamed", data |-> [id |-> 42]],
          [event_type |-> "task-added", data |-> [id |-> 42]]}

\* The batches main() may be given: at most MaxBatch commands, and no more
\* than the stream has room for.
Batches(p, room) ==
    SeqsUpTo(IF p = "bank" THEN BankCommands ELSE TaskCommands,
             IF room < MaxBatch THEN room ELSE MaxBatch)

\* The locals of the second run of the bank's main() before its load: no item
\* read, the seed account, no command handled, nothing to write.
OtherRun(at) ==
    [pc |-> at, pos |-> 0, state |-> AccountData_new(AccountId),
     outcomes |-> <<>>, pending |-> <<>>]

Init ==
    /\ prog \in {"bank", "tasks"}
    /\ log = <<>>
    /\ pc = "idle"
    /\ pos = 0
    /\ state = Seed(prog)
    /\ loaded = FALSE
    /\ cmds = <<>>
    /\ idx = 0
    /\ outcomes = <<>>
    /\ pending = <<>>
    /\ other = OtherRun("off")

\* main() starts: it opens the stream and seeds the fold.
Start ==
    /\ pc \in {"idle", "done", "fatal"}
    /\ pc' = "load"
    /\ pos' = 0
    /\ state' = Seed(prog)
    /\ loaded' = FALSE
    /\ cmds' = <<>>
    /\ idx' = 0
    /\ outcomes' = <<>>
    /\ pending' = <<>>
    /\ UNCHANGED <<other, prog, log>>

\* Between two runs (main has returned or panicked, or has not run yet; its
\* locals are gone) another application appends an event to the stream.
ForeignAppend ==
    /\ pc \in {"idle", "done", "fatal"}
    /\ Len(log) < MaxLog
    /\ \E item \in ForeignEvents(prog) : log' = Append(log, item)
    /\ pc' = "idle"
    /\ pos' = 0
    /\ state' = Seed(prog)
    /\ loaded' = FALSE
    /\ cmds' = <<>>
    /\ idx' = 0
    /\ outcomes' = <<>>
    /\ pending' = <<>>
    /\ UNCHANGED <<other, prog>>

\* The fold closure on the next stream item.
LoadStep ==
    /\ pc = "load"
    /\ pos < Len(log)
    /\ Decodes(prog, log[pos + 1])
    /\ state' = FoldStep(prog, state, log[pos + 1])
    /\ pos' = pos + 1
    /\ UNCHANGED <<other, prog, log, pc, loaded, cmds, idx, outcomes, pending>>

\* The arithmetic of apply_bank_event overflows in a build that checks it: panic.
LoadOverflowPanic ==
    /\ pc = "load"
    /\ prog = "bank"
    /\ pos < Len(log)
    /\ Decodes(prog, log[pos + 1])
    /\ apply_bank_event_overflows(state, Decode(prog, log[pos + 1]))
    /\ pc' = "fatal"
    /\ UNCHANGED <<other, prog, log, pos, state, loaded, cmds, idx, outcomes, pending>>

\* The load with an item that cannot be decoded skipped instead of a panic.
LoadDecodePanic_SkipsItem ==
    /\ pc = "load"
    /\ pos < Len(log)
    /\ ~Decodes(prog, log[pos + 1])
    /\ pos' = pos + 1
    /\ UNCHANGED <<other, prog, log, pc, state, loaded, cmds, idx, outcomes, pending>>

\* from_eventstore_event panics on the next item: unreachable!(), or
\* unwrap / expect on as_json().
LoadDecodePanic ==
    /\ pc = "load"
    /\ pos < Len(log)
    /\ ~Decodes(prog, log[pos + 1])
    /\ pc' = "fatal"
    /\ UNCHANGED <<other, prog, log, pos, state, loaded, cmds, idx, outcomes, pending>>

\* The stream yields an error instead of an item: item.expect panics (bank),
\* try_fold returns the error and `?` ends main (task list).
LoadItemError ==
    /\ pc = "load"
    /\ pc' = "fatal"
    /\ UNCHANGED <<other, prog, log, pos, state, loaded, cmds, idx, outcomes, pending>>

\* The stream ends: the fold returns the aggregate, main builds its commands.
LoadDone ==
    /\ pc = "load"
    /\ pos = Len(log)
    /\ loaded' = TRUE
    /\ pc' = "process"
    /\ \E batch \in Batches(prog, MaxLog - Len(log)) : cmds' = batch
    /\ UNCHANGED <<other, prog, log, pos, state, idx, outcomes, pending>>

\* The closure with map in place of filter_map: the event of the command is
\* kept for the write whatever handle_bank_command returned.
BankHandle_KeepsRejected ==
    /\ pc = "process"
    /\ prog = "bank"
    /\ idx < Len(cmds)
    /\ \E new_v4 \in Uuids :
          LET cmd == cmds[idx + 1]
              result == handle_bank_command(state, cmd, new_v4)
              kept == [event_type |-> IF cmd.tpe.variant = "DepositFunds"
                                      THEN "funds-deposited" ELSE "funds-withdrawn",
                       data |-> [account_id |-> cmd.tpe.account_id,
                                 amount |-> cmd.tpe.amount,
                                 correlation |-> cmd.correlation]]
          IN  /\ outcomes' = Append(outcomes, [cmd |-> cmd, result |-> result])
              /\ pending' = Append(pending, kept)
    /\ idx' = idx + 1
    /\ UNCHANGED <<other, prog, log, pc, pos, state, loaded, cmds>>

\* The closure with a decision function that takes `&mut self` and applies
\* the event it accepts.
BankHandle_AppliesAccepted ==
    /\ pc = "process"
    /\ prog = "bank"
    /\ idx < Len(cmds)
    /\ \E new_v4 \in Uuids :
          LET cmd == cmds[idx + 1]
              result == handle_bank_command(state, cmd, new_v4)
          IN  /\ outcomes' = Append(outcomes, [cmd |-> cmd, result |-> result])
              /\ pending' = IF result.ok
                            THEN Append(pending, BankEvent_into_eventstore_event(result.event))
                            ELSE pending
              /\ state' = IF result.ok THEN apply_bank_event(state, result.event) ELSE state
    /\ idx' = idx + 1
    /\ UNCHANGED <<other, prog, log, pc, pos, loaded, cmds>>

\* Bank: the filter_map closure on the next command.
BankHandle ==
    /\ pc = "process"
    /\ prog = "bank"
    /\ idx < Len(cmds)
    /\ \E new_v4 \in Uuids :
          LET cmd == cmds[idx + 1]
              result == handle_bank_command(state, cmd, new_v4)
          IN  /\ outcomes' = Append(outcomes, [cmd |-> cmd, result |-> result])
              /\ pending' = IF result.ok
                            THEN Append(pending, BankEvent_into_eventstore_event(result.event))
                            ELSE pending
    /\ idx' = idx + 1
    /\ UNCHANGED <<other, prog, log, pc, pos, state, loaded, cmds>>

\* Bank: the subtraction of handle_bank_command overflows in a build that checks it.
BankHandleOverflowPanic ==
    /\ pc = "process"
    /\ prog = "bank"
    /\ idx < Len(cmds)
    /\ handle_bank_command_overflows(state, cmds[idx + 1])
    /\ pc' = "fatal"
    /\ UNCHANGED <<other, prog, log, pos, state, loaded, cmds, idx, outcomes, pending>>

\* The write as a replacement of the stream by the accepted events.
BankWrite_ReplacesStream ==
    /\ pc = "process"
    /\ prog = "bank"
    /\ idx = Len(cmds)
    /\ pending # <<>>
    /\ log' = pending
    /\ pending' = <<>>
    /\ pc' = "done"
    /\ UNCHANGED <<other, prog, pos, state, loaded, cmds, idx, outcomes>>

\* Bank: the commands are exhausted, chunks(1_000) yields the accepted events
\* as one batch (MaxBatch is far below 1_000) and append_events writes it.
BankWrite ==
    /\ pc = "process"
    /\ prog = "bank"
    /\ idx = Len(cmds)
    /\ pending # <<>>
    /\ log' = log \o pending
    /\ pending' = <<>>
    /\ pc' = "done"
    /\ UNCHANGED <<other, prog, pos, state, loaded, cmds, idx, outcomes>>

\* Bank: the write fails and expect panics.
BankWriteFail ==
    /\ pc = "process"
    /\ prog = "bank"
    /\ idx = Len(cmds)
    /\ pending # <<>>
    /\ pc' = "fatal"
    /\ UNCHANGED <<other, prog, log, pos, state, loaded, cmds, idx, outcomes, pending>>

\* Bank: no event was accepted, chunks yields nothing, nothing is written.
BankNoWrite ==
    /\ pc = "process"
    /\ prog = "bank"
    /\ idx = Len(cmds)
    /\ pending = <<>>
    /\ pc' = "done"
    /\ UNCHANGED <<other, prog, log, pos, state, loaded, cmds, idx, outcomes, pending>>

\* The events of an accepted command, encoded for the stream.
EncodeAll(events) ==
    [i \in 1..Len(events) |-> Event_into_eventstore_event(events[i])]

\* The loop turn with the accepted events folded into the state before the
\* next command is validated.
TaskHandle_FoldsAccepted ==
    /\ pc = "process"
    /\ prog = "tasks"
    /\ idx < Len(cmds)
    /\ LET cmd == cmds[idx + 1]
           result == execute(state, cmd)
       IN  /\ outcomes' = Append(outcomes, [cmd |-> cmd, result |-> result])
           /\ log' = IF result.ok THEN log \o EncodeAll(result.events) ELSE log
           /\ state' = IF result.ok THEN ApplyAll(state, result.events) ELSE state
    /\ idx' = idx + 1
    /\ UNCHANGED <<other, prog, pc, pos, loaded, cmds, pending>>

\* The loop turn with a return in the error arm: the first rejected command
\* ends the loop.
TaskHandle_StopsAtError ==
    /\ pc = "process"
    /\ prog = "tasks"
    /\ idx < Len(cmds)
    /\ LET cmd == cmds[idx + 1]
           result == execute(state, cmd)
       IN  /\ outcomes' = Append(outcomes, [cmd |-> cmd, result |-> result])
           /\ log' = IF result.ok THEN log \o EncodeAll(result.events) ELSE log
           /\ pc' = IF result.ok THEN pc ELSE "done"
    /\ idx' = idx + 1
    /\ UNCHANGED <<other, prog, pos, state, loaded, cmds, pending>>

\* Task list: one turn of the `for cmd` loop: execute, then print the error or
\* append the events.
TaskHandle ==
    /\ pc = "process"
    /\ prog = "tasks"
    /\ idx < Len(cmds)
    /\ LET cmd == cmds[idx + 1]
           result == execute(state, cmd)
       IN  /\ outcomes' = Append(outcomes, [cmd |-> cmd, result |-> result])
           /\ log' = IF result.ok THEN log \o EncodeAll(result.events) ELSE log
    /\ idx' = idx + 1
    /\ UNCHANGED <<other, prog, pc, pos, state, loaded, cmds, pending>>

\* Task list: the write of an accepted command fails and `?` ends main.
TaskWriteFail ==
    /\ pc = "process"
    /\ prog = "tasks"
    /\ idx < Len(cmds)
    /\ execute(state, cmds[idx + 1]).ok
    /\ pc' = "fatal"
    /\ UNCHANGED <<other, prog, log, pos, state, loaded, cmds, idx, outcomes, pending>>

\* Task list: the loop ends and main returns Ok(()).
TaskLoopEnd ==
    /\ pc = "process"
    /\ prog = "tasks"
    /\ idx = Len(cmds)
    /\ pc' = "done"
    /\ UNCHANGED <<other, prog, log, pos, state, loaded, cmds, idx, outcomes, pending>>

Next ==
    \/ Start
    \/ ForeignAppend
    \/ LoadStep
    \/ LoadOverflowPanic
    \/ LoadDecodePanic
    \/ LoadItemError
    \/ LoadDone
    \/ BankHandle
    \/ BankHandleOverflowPanic
    \/ BankWrite
    \/ BankWriteFail
    \/ BankNoWrite
    \/ TaskHandle
    \/ TaskWriteFail
    \/ TaskLoopEnd

Spec == Init /\ [][Next]_vars

----------------------------------------------------------------------------
(* What the claims speak of *)

\* The stream as the fold of this run read it.
LoadedLog == SubSeq(log, 1, pos)

\* The persisted events an outcome adds to the stream: none for an error.
ResultEvents(p, result) ==
    IF ~result.ok THEN <<>>
    ELSE IF p = "bank" THEN <<BankEvent_into_eventstore_event(result.event)>>
    ELSE EncodeAll(result.events)

RECURSIVE AcceptedEvents(_, _)
AcceptedEvents(p, outs) ==
    IF outs = <<>> THEN <<>>
    ELSE ResultEvents(p, Head(outs).result) \o AcceptedEvents(p, Tail(outs))

\* A step in which the decision function returned an error for a command.
RejectStep ==
    /\ Len(outcomes') = Len(outcomes) + 1
    /\ ~outcomes'[Len(outcomes')].result.ok

\* The balance of a stream of bank events computed in the integers, without
\* the casts and the wraps of the machine arithmetic.
RECURSIVE ExactBalance(_)
ExactBalance(items) ==
    IF items = <<>> THEN 0
    ELSE LET last == items[Len(items)]
         IN  ExactBalance(SubSeq(items, 1, Len(items) - 1))
             + (IF last.event_type = "funds-withdrawn"
                THEN 0 - last.data.amount ELSE last.data.amount)

\* No cast and no addition wraps when apply_bank_event folds these items.
NoWrap(items) ==
    \A k \in 1..Len(items) :
        /\ items[k].data.amount <= I64Max
        /\ InI64(ExactBalance(SubSeq(items, 1, k)))

----------------------------------------------------------------------------
(* C1 *)

----------------------------------------------------------------------------
(* C2 *)

\* C2 (balance floor): the balance obtained by projecting the stream is at
\* least zero.  Stated here for the streams whose amounts and sums stay
\* inside i64, where no arithmetic wraps; the claim as written covers the
\* other streams too.
BalanceFloor ==
    (prog = "bank" /\ AllDecode(prog, log) /\ NoWrap(log))
    => Project(prog, log).balance >= 0

----------------------------------------------------------------------------
(* C3 *)

\* What the decision function returns for cmd on aggregate S, the Uuid of an
\* AccountError left aside.
Decision(p, S, cmd) ==
    IF p = "bank"
    THEN LET r == handle_bank_command(S, cmd, cmd.correlation)
         IN  IF r.ok THEN r ELSE [ok |-> FALSE, error |-> r.error.tpe]
    ELSE execute(S, cmd)

SameDecision(p, result, decision) ==
    IF p = "bank" /\ ~result.ok
    THEN ~decision.ok /\ result.error.tpe = decision.error
    ELSE result = decision

\* C3 (batch-snapshot policy): once loaded, the aggregate stays the projection
\* of the stream as it was before the batch, whatever the batch has appended,
\* and every outcome of the batch is the decision on that projection.  With an
\* empty stream, the batch [AddTask(42), CompleteTask(42)] ends with exactly
\* one TaskAdded event in the stream and TaskDoesNotExist for CompleteTask(42).
BatchSnapshot ==
    /\ loaded =>
          /\ AllDecode(prog, LoadedLog)
          /\ state = Project(prog, LoadedLog)
          /\ \A i \in 1..Len(outcomes) :
                SameDecision(prog, outcomes[i].result,
                             Decision(prog, Project(prog, LoadedLog), outcomes[i].cmd))
    /\ (/\ prog = "tasks"
        /\ pc = "done"
        /\ pos = 0
        /\ Len(cmds) = 2
        /\ cmds[1].variant = "AddTask"
        /\ cmds[1].args.id = 42
        /\ cmds[2] = [variant |-> "CompleteTask", args |-> [id |-> 42]])
       => /\ log = <<[event_type |-> "task-added", data |-> cmds[1].args]>>
          /\ outcomes[2].result = [ok |-> FALSE, error |-> "TaskDoesNotExist"]

\* The batch [AddTask(42), CompleteTask(42)] has run on an empty stream.
BatchSnapshotWitness ==
    /\ prog = "tasks"
    /\ pc = "done"
    /\ pos = 0
    /\ Len(cmds) = 2
    /\ cmds[1].variant = "AddTask"
    /\ cmds[1].args.id = 42
    /\ cmds[2] = [variant |-> "CompleteTask", args |-> [id |-> 42]]
    /\ Len(log) = 1

----------------------------------------------------------------------------
(* C4 *)

AddTask(id, name, due_date) ==
    [variant |-> "AddTask", args |-> [id |-> id, name |-> name, due_date |-> due_date]]

\* The batch [AddTask(42, "x"), AddTask(42, "y")] has been validated against
\* an empty task set.
ScenarioD ==
    /\ prog = "tasks"
    /\ loaded
    /\ state.tasks = <<>>
    /\ Len(cmds) = 2
    /\ idx = 2
    /\ \E d1, d2 \in DueDates : cmds = <<AddTask(42, "x", d1), AddTask(42, "y", d2)>>

\* C4 as claimed (scenario D): AddTask(42, "x") is accepted with TaskAdded and
\* the following AddTask(42, "y"), validated against the same empty task set,
\* is rejected with TaskAlreadyExists.
ScenarioDAsClaimed ==
    ScenarioD =>
        /\ outcomes[1].result = [ok |-> TRUE,
                                 events |-> <<[variant |-> "TaskAdded", args |-> cmds[1].args]>>]
        /\ outcomes[2].result = [ok |-> FALSE, error |-> "TaskAlreadyExists"]

\* C4 amended (scenario D): AddTask(42, "x") is accepted with TaskAdded; the
\* following AddTask(42, "y") is accepted with a second TaskAdded when it is
\* validated against the same empty task set, and execute rejects it with
\* TaskAlreadyExists on the state in which the first TaskAdded is applied.
\* A run whose loaded state holds task 42 rejects AddTask(42) likewise.
ScenarioDAmended ==
    /\ ScenarioD =>
          /\ outcomes[1].result = [ok |-> TRUE,
                                   events |-> <<[variant |-> "TaskAdded", args |-> cmds[1].args]>>]
          /\ outcomes[2].result = [ok |-> TRUE,
                                   events |-> <<[variant |-> "TaskAdded", args |-> cmds[2].args]>>]
          /\ execute(apply(state, outcomes[1].result.events[1]), cmds[2])
                = [ok |-> FALSE, error |-> "TaskAlreadyExists"]
    /\ (/\ prog = "tasks"
        /\ loaded
        /\ idx >= 1
        /\ cmds[1].variant = "AddTask"
        /\ \E i \in 1..Len(state.tasks) : state.tasks[i].id = cmds[1].args.id)
       => outcomes[1].result = [ok |-> FALSE, error |-> "TaskAlreadyExists"]

\* Scenario D has run to its end and both events are in the stream.
ScenarioDWitness ==
    /\ ScenarioD
    /\ pc = "done"
    /\ Len(log) = pos + 2

----------------------------------------------------------------------------
(* C5 *)

CompleteTask(id) == [variant |-> "CompleteTask", args |-> [id |-> id]]

ChangeTaskDueDate(id, due_date) ==
    [variant |-> "ChangeTaskDueDate", args |-> [id |-> id, due_date |-> due_date]]

\* Task 42 is in the loaded state and not complete.
Task42Open ==
    /\ prog = "tasks"
    /\ loaded
    /\ get_task(state, 42).some
    /\ ~get_task(state, 42).task.is_complete

\* The batch [CompleteTask(42), ChangeTaskDueDate(42, d)] has been validated
\* against a state in which task 42 is not complete.
ScenarioE ==
    /\ Task42Open
    /\ Len(cmds) = 2
    /\ idx = 2
    /\ cmds[1] = CompleteTask(42)
    /\ cmds[2].variant = "ChangeTaskDueDate"
    /\ cmds[2].args.id = 42

TaskCompleted42 == [variant |-> "TaskCompleted", args |-> [id |-> 42]]

\* C5 as claimed (scenario E): CompleteTask(42) is accepted with TaskCompleted;
\* the following ChangeTaskDueDate(42, d) fails with TaskAlreadyFinished on
\* the stale state (TaskCompleted not applied) and succeeds with
\* TaskDueDateChanged on the state in which TaskCompleted is applied.
ScenarioEAsClaimed ==
    ScenarioE =>
        /\ outcomes[1].result = [ok |-> TRUE, events |-> <<TaskCompleted42>>]
        /\ outcomes[2].result = [ok |-> FALSE, error |-> "TaskAlreadyFinished"]
        /\ execute(apply(state, TaskCompleted42), cmds[2])
              = [ok |-> TRUE,
                 events |-> <<[variant |-> "TaskDueDateChanged", args |-> cmds[2].args]>>]

\* C5 amended (scenario E): CompleteTask(42) is accepted with TaskCompleted;
\* the following ChangeTaskDueDate(42, d) succeeds with TaskDueDateChanged on
\* the stale state (TaskCompleted not applied) and fails with
\* TaskAlreadyFinished on the state in which TaskCompleted is applied.  A run
\* whose loaded state holds task 42 as complete rejects ChangeTaskDueDate(42)
\* likewise.
ScenarioEAmended ==
    /\ ScenarioE =>
          /\ outcomes[1].result = [ok |-> TRUE, events |-> <<TaskCompleted42>>]
          /\ outcomes[2].result
                = [ok |-> TRUE,
                   events |-> <<[variant |-> "TaskDueDateChanged", args |-> cmds[2].args]>>]
          /\ execute(apply(state, TaskCompleted42), cmds[2])
                = [ok |-> FALSE, error |-> "TaskAlreadyFinished"]
    /\ (/\ prog = "tasks"
        /\ loaded
        /\ idx >= 1
        /\ cmds[1].variant = "ChangeTaskDueDate"
        /\ get_task(state, cmds[1].args.id).some
        /\ get_task(state, cmds[1].args.id).task.is_complete)
       => outcomes[1].result = [ok |-> FALSE, error |-> "TaskAlreadyFinished"]

\* Scenario E has run to its end: TaskCompleted and TaskDueDateChanged are
\* both in the stream.
ScenarioEWitness ==
    /\ ScenarioE
    /\ pc = "done"
    /\ Len(log) = pos + 2

----------------------------------------------------------------------------
(* C6 *)

\* C6 (correlation tracing): every outcome of handle_bank_command carries the
\* correlation identifier of its command, in the payload of the accepted
\* event and in the AccountError alike.
CorrelationTraced ==
    prog = "bank" =>
        \A i \in 1..Len(outcomes) :
            IF outcomes[i].result.ok
            THEN outcomes[i].result.event.payload.correlation = outcomes[i].cmd.correlation
            ELSE outcomes[i].result.error.correlation = outcomes[i].cmd.correlation

----------------------------------------------------------------------------
(* C7 *)

Successor(p, S, result) ==
    IF p = "bank" THEN apply_bank_event(S, result.event) ELSE ApplyAll(S, result.events)

\* T differs from S in the first task with this id only, and there only in
\* the field the command sets.
OnlyFirstTaskChanged(S, T, id, field, value) ==
    /\ Len(T.tasks) = Len(S.tasks)
    /\ FirstTask(S, id) # 0
    /\ \A i \in 1..Len(S.tasks) :
          IF i = FirstTask(S, id)
          THEN T.tasks[i] = [S.tasks[i] EXCEPT ![field] = value]
          ELSE T.tasks[i] = S.tasks[i]

\* State T realizes the intent of command cmd on state S.
Intent(p, S, cmd, T) ==
    IF p = "bank"
    THEN IF cmd.tpe.variant = "DepositFunds"
         THEN T.balance = S.balance + cmd.tpe.amount
         ELSE T.balance = S.balance - cmd.tpe.amount
    ELSE CASE cmd.variant = "AddTask" ->
                T.tasks = S.tasks \o <<[id |-> cmd.args.id,
                                        name |-> cmd.args.name,
                                        due_date |-> cmd.args.due_date,
                                        is_complete |-> FALSE]>>
           [] cmd.variant = "RemoveTask" ->
                /\ \A i \in 1..Len(T.tasks) : T.tasks[i].id # cmd.args.id
                /\ T.tasks = SelectSeq(S.tasks, LAMBDA task : task.id # cmd.args.id)
           [] cmd.variant = "ClearAllTasks" ->
                T.tasks = <<>>
           [] cmd.variant = "CompleteTask" ->
                /\ get_task(T, cmd.args.id).task.is_complete
                /\ OnlyFirstTaskChanged(S, T, cmd.args.id, "is_complete", TRUE)
           [] cmd.variant = "ChangeTaskDueDate" ->
                /\ get_task(T, cmd.args.id).task.due_date = cmd.args.due_date
                /\ OnlyFirstTaskChanged(S, T, cmd.args.id, "due_date", cmd.args.due_date)

\* C7 (accept implies replayable): for every command the decision function
\* accepted on the loaded state S, folding apply over the returned events from
\* S yields a state that realizes the intent of the command.
AcceptRealizesIntent ==
    \A i \in 1..Len(outcomes) :
        outcomes[i].result.ok =>
            Intent(prog, state, outcomes[i].cmd, Successor(prog, state, outcomes[i].result))

----------------------------------------------------------------------------
(* C8 *)

\* C8 (independent outcomes in input order): the handled commands have one
\* outcome each, in the order of the batch; the accepted events stand in the
\* stream (task list) or wait to be written (bank) in the order of their
\* commands; a run that ends normally has handled every command of the batch
\* and has appended exactly the accepted events, in order; and a run never
\* stops at a command that the decision function rejects.
IndependentOutcomes ==
    /\ Len(outcomes) = idx
    /\ idx <= Len(cmds)
    /\ \A i \in 1..idx : outcomes[i].cmd = cmds[i]
    /\ \A i \in 1..idx : DOMAIN outcomes[i].result \in {{"ok", "error"}, {"ok", "event"}, {"ok", "events"}}
    /\ (loaded /\ prog = "tasks") => log = LoadedLog \o AcceptedEvents(prog, outcomes)
    /\ (loaded /\ prog = "bank" /\ pc # "done") =>
          /\ log = LoadedLog
          /\ pending = AcceptedEvents(prog, outcomes)
    /\ pc = "done" =>
          /\ idx = Len(cmds)
          /\ log = LoadedLog \o AcceptedEvents(prog, outcomes)
    /\ (pc = "fatal" /\ loaded /\ idx < Len(cmds)) =>
          IF prog = "bank"
          THEN handle_bank_command_overflows(state, cmds[idx + 1])
          ELSE execute(state, cmds[idx + 1]).ok

\* A batch whose first command was rejected and whose second was accepted has
\* run to its end.
IndependentOutcomesWitness ==
    /\ pc = "done"
    /\ Len(cmds) = 2
    /\ ~outcomes[1].result.ok
    /\ outcomes[2].result.ok
    /\ Len(log) = pos + 1

----------------------------------------------------------------------------
(* C9 *)

----------------------------------------------------------------------------
(* C10 *)

\* The fold stands before a stream item that from_eventstore_event cannot decode.
AtUndecodable ==
    /\ pc = "load"
    /\ pos < Len(log)
    /\ ~Decodes(prog, log[pos + 1])

\* C10 (decode failure is fatal and never partial): a state is returned to
\* main only when every item of the stream was decoded, and commands are
\* handled only on a returned state; before an item that cannot be decoded
\* or read, the only step is the fatal end of the load, which returns no
\* state; and a run that has returned no state appends nothing.
DecodeFailureIsFatal ==
    /\ [](/\ loaded => AllDecode(prog, log)
          /\ pc \in {"process", "done"} => loaded
          /\ ~loaded => (outcomes = <<>> /\ pending = <<>> /\ idx = 0))
    /\ [][AtUndecodable => (pc' = "fatal" /\ ~loaded' /\ log' = log)]_vars
    /\ [][(pc = "load" /\ pc' = "fatal") => (~loaded' /\ log' = log /\ outcomes' = <<>>)]_vars
    /\ [][(~loaded' /\ pc' # "idle") => log' = log]_vars

\* The load ended fatally at an item it cannot decode, after it had folded
\* at least one event into its accumulator.
DecodeFailureWitness ==
    /\ pc = "fatal"
    /\ ~loaded
    /\ pos >= 1
    /\ pos < Len(log)
    /\ ~Decodes(prog, log[pos + 1])
    /\ state # Seed(prog)

----------------------------------------------------------------------------
(* C11 *)

\* The events an accepted outcome carries, as a sequence: the one BankEvent of
\* Ok(BankEvent), the Vec<Event> of Ok(Vec<Event>).
ReturnedEvents(p, result) ==
    IF p = "bank" THEN <<result.event>> ELSE result.events

\* C11 (acceptance yields at least one event): every accepted outcome carries
\* exactly one event, hence at least one, and that event is written as one
\* stream event.  ClearAllTasks yields its AllTasksCleared event also on an
\* empty task set, and DepositFunds of amount 0 its FundsDeposited event.
AcceptYieldsOneEvent ==
    \A i \in 1..Len(outcomes) :
        LET cmd == outcomes[i].cmd
            result == outcomes[i].result
        IN  /\ result.ok =>
                  /\ DOMAIN result = (IF prog = "bank" THEN {"ok", "event"} ELSE {"ok", "events"})
                  /\ Len(ReturnedEvents(prog, result)) = 1
                  /\ Len(ResultEvents(prog, result)) = 1
            /\ (prog = "tasks" /\ cmd.variant = "ClearAllTasks") =>
                  result = [ok |-> TRUE,
                            events |-> <<[variant |-> "AllTasksCleared",
                                          args |-> [none |-> TRUE]]>>]
            /\ (prog = "bank" /\ cmd.tpe.variant = "DepositFunds" /\ cmd.tpe.amount = 0) =>
                  /\ result.ok
                  /\ result.event.variant = "FundsDeposited"
                  /\ result.event.payload.amount = 0

\* ClearAllTasks was accepted on an empty task set and its event appended.
AcceptYieldsOneEventWitness ==
    /\ prog = "tasks"
    /\ pc = "done"
    /\ state.tasks = <<>>
    /\ Len(outcomes) = 1
    /\ outcomes[1].cmd.variant = "ClearAllTasks"
    /\ outcomes[1].result.ok
    /\ Len(log) = pos + 1

----------------------------------------------------------------------------
(* C12 *)

\* A task with this id is in the state.
HasTask(S, id) == \E k \in 1..Len(S.tasks) : S.tasks[k].id = id

\* The task with this id (the first one, should there be several) is complete.
TaskIsComplete(S, id) ==
    \E k \in 1..Len(S.tasks) :
        /\ S.tasks[k].id = id
        /\ S.tasks[k].is_complete
        /\ \A j \in 1..(k - 1) : S.tasks[j].id # id

Rejected(result, error) == result = [ok |-> FALSE, error |-> error]

AcceptedWith(result, variant, args) ==
    result = [ok |-> TRUE, events |-> <<[variant |-> variant, args |-> args]>>]

\* C12 (task-list decision table): every outcome of execute on the loaded
\* state is the row of the table for its command.  AddTask(id) is rejected
\* with TaskAlreadyExists iff a task with that id is in the state; RemoveTask
\* and CompleteTask are rejected with TaskDoesNotExist iff no task with that
\* id is in the state, CompleteTask being accepted whatever is_complete says;
\* ChangeTaskDueDate is rejected with TaskDoesNotExist iff there is no such
\* task, with TaskAlreadyFinished iff the task exists and is complete, and is
\* accepted otherwise; ClearAllTasks is always accepted.
TaskDecisionTable ==
    prog = "tasks" =>
        \A i \in 1..Len(outcomes) :
            LET cmd == outcomes[i].cmd
                result == outcomes[i].result
            IN  CASE cmd.variant = "AddTask" ->
                        IF HasTask(state, cmd.args.id)
                        THEN Rejected(result, "TaskAlreadyExists")
                        ELSE AcceptedWith(result, "TaskAdded", cmd.args)
                  [] cmd.variant = "RemoveTask" ->
                        IF HasTask(state, cmd.args.id)
                        THEN AcceptedWith(result, "TaskRemoved", cmd.args)
                        ELSE Rejected(result, "TaskDoesNotExist")
                  [] cmd.variant = "CompleteTask" ->
                        IF HasTask(state, cmd.args.id)
                        THEN AcceptedWith(result, "TaskCompleted", cmd.args)
                        ELSE Rejected(result, "TaskDoesNotExist")
                  [] cmd.variant = "ChangeTaskDueDate" ->
                        IF ~HasTask(state, cmd.args.id)
                        THEN Rejected(result, "TaskDoesNotExist")
                        ELSE IF TaskIsComplete(state, cmd.args.id)
                             THEN Rejected(result, "TaskAlreadyFinished")
                             ELSE AcceptedWith(result, "TaskDueDateChanged", cmd.args)
                  [] cmd.variant = "ClearAllTasks" ->
                        AcceptedWith(result, "AllTasksCleared", [none |-> TRUE])

\* ChangeTaskDueDate was rejected with TaskAlreadyFinished on a loaded state
\* whose task is complete.
TaskDecisionTableWitness ==
    /\ prog = "tasks"
    /\ pc = "done"
    /\ Len(outcomes) = 1
    /\ outcomes[1].cmd.variant = "ChangeTaskDueDate"
    /\ TaskIsComplete(state, outcomes[1].cmd.args.id)
    /\ Rejected(outcomes[1].result, "TaskAlreadyFinished")

----------------------------------------------------------------------------
(* C13 *)

\* The accepted outcome of a bank command: one event of this variant that
\* carries the amount of the command.
BankAcceptedWith(result, variant, cmd) ==
    /\ DOMAIN result = {"ok", "event"}
    /\ result.ok
    /\ result.event.variant = variant
    /\ result.event.payload.amount = cmd.tpe.amount

\* C13 (bank decision table): on the loaded account with balance b,
\* WithdrawFunds(a) is accepted with one FundsWithdrawn event carrying a iff
\* b - a >= 0 and is rejected with NotEnoughFunds otherwise; DepositFunds(a)
\* is always accepted with one FundsDeposited event carrying a.  From the
\* seed a deposit gives balance a and generation 1, and an accepted
\* withdrawal lowers the balance by its amount.
BankDecisionTable ==
    prog = "bank" =>
        \A i \in 1..Len(outcomes) :
            LET cmd == outcomes[i].cmd
                result == outcomes[i].result
            IN  IF cmd.tpe.variant = "DepositFunds"
                THEN /\ BankAcceptedWith(result, "FundsDeposited", cmd)
                     /\ state = AccountData_new(AccountId) =>
                           /\ apply_bank_event(state, result.event).balance = cmd.tpe.amount
                           /\ apply_bank_event(state, result.event).generation = 1
                ELSE IF state.balance - cmd.tpe.amount >= 0
                     THEN /\ BankAcceptedWith(result, "FundsWithdrawn", cmd)
                          /\ apply_bank_event(state, result.event).balance
                                = state.balance - cmd.tpe.amount
                     ELSE /\ ~result.ok
                          /\ result.error.tpe = "NotEnoughFunds"

----------------------------------------------------------------------------
(* C14 *)

\* A step in which the decision function returned for a command.
DecisionStep == Len(outcomes') = Len(outcomes) + 1

\* C14 (the decision function does not mutate state): in every step in which
\* execute or handle_bank_command returns, with events or with an error, the
\* state it was given is unchanged: the same tasks in the same order with the
\* same fields; the same balance, account id and generation.
DecisionLeavesState ==
    [][DecisionStep =>
         /\ state' = state
         /\ prog = "tasks" =>
               /\ Len(state'.tasks) = Len(state.tasks)
               /\ \A k \in 1..Len(state.tasks) : state'.tasks[k] = state.tasks[k]
         /\ prog = "bank" =>
               /\ state'.balance = state.balance
               /\ state'.account_id = state.account_id
               /\ state'.generation = state.generation]_vars

\* The decision function has returned an event for one command and an error
\* for another, on a state that is not the seed.
DecisionLeavesStateWitness ==
    /\ Len(outcomes) = 2
    /\ outcomes[1].result.ok
    /\ ~outcomes[2].result.ok
    /\ state # Seed(prog)
    /\ prog = "bank"

----------------------------------------------------------------------------
(* C16 *)

\* C16 (overflow-free numeric guard): for every withdrawal handled on the
\* loaded account, the cast of the amount to i64 keeps its value and the
\* subtraction of the guard does not wrap, a WithdrawFunds whose amount
\* exceeds the balance is rejected with NotEnoughFunds, and applying the
\* FundsWithdrawn event of an accepted one does not increase the balance.
OverflowFreeGuard ==
    prog = "bank" =>
        \A i \in 1..Len(outcomes) :
            LET cmd == outcomes[i].cmd
                result == outcomes[i].result
            IN  cmd.tpe.variant = "WithdrawFunds" =>
                    /\ AsI64(cmd.tpe.amount) = cmd.tpe.amount
                    /\ InI64(state.balance - AsI64(cmd.tpe.amount))
                    /\ cmd.tpe.amount > state.balance =>
                          (~result.ok /\ result.error.tpe = "NotEnoughFunds")
                    /\ result.ok =>
                          apply_bank_event(state, result.event).balance <= state.balance

----------------------------------------------------------------------------
(* C18 *)

\* No two tasks of the state have the same id.
UniqueIds(S) ==
    \A j, k \in 1..Len(S.tasks) : S.tasks[j].id = S.tasks[k].id => j = k

\* C18 (task ids are unique): a stream that holds nothing but the events the
\* load-process-append cycles of the task list have appended, starting from
\* the empty stream, projects to a state without two tasks of the same id.
TaskIdsUnique ==
    (prog = "tasks" /\ AllDecode(prog, log)) => UniqueIds(Project(prog, log))

----------------------------------------------------------------------------
(* C20 *)

IsPrefix(s, t) == Len(s) <= Len(t) /\ SubSeq(t, 1, Len(s)) = s

\* What a step has added to the end of the stream.
Added == SubSeq(log', Len(log) + 1, Len(log'))

\* C20 (the stream is append-only): in every step the stream before the step
\* is a prefix of the stream after it, so no event of the stream is edited,
\* removed or reordered; and what a step of a run of main adds is what the
\* decision function returned for accepted commands of the batch, at most one
\* event per command: the event of the command just accepted (task list), the
\* events of all accepted commands of the batch in one write (bank).
LogAppendOnly ==
    [][/\ IsPrefix(log, log')
       /\ (pc' # "idle" /\ log' # log) =>
             /\ loaded
             /\ IF prog = "tasks"
                THEN /\ DecisionStep
                     /\ outcomes'[Len(outcomes')].result.ok
                     /\ Added = EncodeAll(execute(state, cmds[idx + 1]).events)
                     /\ Len(Added) = 1
                ELSE /\ idx = Len(cmds)
                     /\ Added = AcceptedEvents(prog, outcomes)
                     /\ Len(Added) <= Len(cmds)]_vars

\* A run of the bank example has written two accepted events behind the
\* events its stream held before.
LogAppendOnlyWitness ==
    /\ prog = "bank"
    /\ pc = "done"
    /\ pos >= 1
    /\ Len(log) = pos + 2
    /\ SubSeq(log, pos + 1, Len(log)) = AcceptedEvents(prog, outcomes)

----------------------------------------------------------------------------
(* The bank example run by a single writer with one command in each run *)

InitBank ==
    /\ prog = "bank"
    /\ log = <<>>
    /\ pc = "idle"
    /\ pos = 0
    /\ state = Seed(prog)
    /\ loaded = FALSE
    /\ cmds = <<>>
    /\ idx = 0
    /\ outcomes = <<>>
    /\ pending = <<>>
    /\ other = OtherRun("off")

\* The stream ends: the fold returns the aggregate, and the commands stream
\* main builds holds one command of this set (none when the stream has no
\* room left).
LoadDoneOne(commands) ==
    /\ pc = "load"
    /\ pos = Len(log)
    /\ loaded' = TRUE
    /\ pc' = "process"
    /\ IF Len(log) < MaxLog
       THEN \E cmd \in commands : cmds' = <<cmd>>
       ELSE cmds' = <<>>
    /\ UNCHANGED <<other, prog, log, pos, state, idx, outcomes, pending>>

LoadDoneOneCommand == LoadDoneOne(BankCommands)

NextOneCommand ==
    \/ Start
    \/ LoadStep
    \/ LoadOverflowPanic
    \/ LoadItemError
    \/ LoadDoneOneCommand
    \/ BankHandle
    \/ BankHandleOverflowPanic
    \/ BankWrite
    \/ BankWriteFail
    \/ BankNoWrite

SpecOneCommand == InitBank /\ [][NextOneCommand]_vars

----------------------------------------------------------------------------
(* C19 *)

\* The command an event of the stream was accepted for.
CommandOf(item) ==
    [correlation |-> item.data.correlation,
     tpe |-> [variant |-> IF item.event_type = "funds-withdrawn"
                          THEN "WithdrawFunds" ELSE "DepositFunds",
              account_id |-> item.data.account_id,
              amount |-> item.data.amount]]

\* C19 (single writer, one command in each cycle): where no cast and no sum
\* of the stream wraps, every event of the stream is the event that
\* handle_bank_command returns for its command on the projection of all the
\* events before it, and the balance projected from the stream, and from
\* every prefix of it, is at least zero.
OneCommandPerCycleSafe ==
    NoWrap(log) =>
        /\ \A k \in 1..Len(log) :
              LET before == Project(prog, SubSeq(log, 1, k - 1))
                  result == handle_bank_command(before, CommandOf(log[k]), "u1")
              IN  /\ result.ok
                  /\ BankEvent_into_eventstore_event(result.event) = log[k]
                  /\ ~handle_bank_command_overflows(before, CommandOf(log[k]))
        /\ \A k \in 0..Len(log) : Project(prog, SubSeq(log, 1, k)).balance >= 0
        /\ (loaded /\ pc # "done") => state = Project(prog, log)

\* A withdrawal was rejected in a run that followed the runs of a deposit
\* and of a withdrawal of the whole balance.
OneCommandPerCycleWitness ==
    /\ pc = "done"
    /\ Len(log) = 2
    /\ pos = 2
    /\ log[1].event_type = "funds-deposited"
    /\ log[2].event_type = "funds-withdrawn"
    /\ log[2].data.amount = log[1].data.amount
    /\ log[1].data.amount >= 1
    /\ NoWrap(log)
    /\ Len(outcomes) = 1
    /\ outcomes[1].cmd.tpe.variant = "WithdrawFunds"
    /\ ~outcomes[1].result.ok

----------------------------------------------------------------------------
(* The bank example run by two writers on the same stream *)

\* The amounts of the commands of the two writers: one inside i64 and the
\* largest usize.
WriterAmounts == {2, UsizeMax}

\* The commands of one writer, which puts its own correlation on them.
WriterCommands(correlation) ==
    [correlation : {correlation},
     tpe : [variant : BankCommandVariants, account_id : {AccountId}, amount : WriterAmounts]]

InitTwoWriters ==
    /\ prog = "bank"
    /\ log = <<>>
    /\ pc = "idle"
    /\ pos = 0
    /\ state = Seed(prog)
    /\ loaded = FALSE
    /\ cmds = <<>>
    /\ idx = 0
    /\ outcomes = <<>>
    /\ pending = <<>>
    /\ other = OtherRun("idle")

\* The second run starts and folds the stream as it stands into its account.
OtherLoad ==
    /\ prog = "bank"
    /\ other.pc \in {"idle", "done", "fatal"}
    /\ Len(log) < MaxLog
    /\ other' = [pc |-> "process", pos |-> Len(log), state |-> Project(prog, log),
                 outcomes |-> <<>>, pending |-> <<>>]
    /\ UNCHANGED <<prog, log, pc, pos, state, loaded, cmds, idx, outcomes, pending>>

\* The load of the second run panics: the stream yields an error, or
\* apply_bank_event overflows in a build that checks it.
OtherLoadPanic ==
    /\ prog = "bank"
    /\ other.pc \in {"idle", "done", "fatal"}
    /\ Len(log) < MaxLog
    /\ other' = OtherRun("fatal")
    /\ UNCHANGED <<prog, log, pc, pos, state, loaded, cmds, idx, outcomes, pending>>

\* The filter_map closure of the second run on its one command.
OtherHandle ==
    /\ other.pc = "process"
    /\ \E cmd \in WriterCommands("u2"), new_v4 \in Uuids :
          LET result == handle_bank_command(other.state, cmd, new_v4)
          IN  other' = [other EXCEPT
                          !.outcomes = <<[cmd |-> cmd, result |-> result]>>,
                          !.pending = IF result.ok
                                      THEN <<BankEvent_into_eventstore_event(result.event)>>
                                      ELSE <<>>,
                          !.pc = "write"]
    /\ UNCHANGED <<prog, log, pc, pos, state, loaded, cmds, idx, outcomes, pending>>

\* The subtraction of handle_bank_command overflows in the second run, in a
\* build that checks it.
OtherHandleOverflowPanic ==
    /\ other.pc = "process"
    /\ \E cmd \in WriterCommands("u2") : handle_bank_command_overflows(other.state, cmd)
    /\ other' = [other EXCEPT !.pc = "fatal"]
    /\ UNCHANGED <<prog, log, pc, pos, state, loaded, cmds, idx, outcomes, pending>>

\* append_events of the second run with an expected version: the write is
\* made only when the stream is as long as the account's generation says.
OtherWrite_ExpectsVersion ==
    /\ other.pc = "write"
    /\ other.pending # <<>>
    /\ Len(log) = other.state.generation
    /\ log' = log \o other.pending
    /\ other' = [other EXCEPT !.pc = "done", !.pending = <<>>]
    /\ UNCHANGED <<prog, pc, pos, state, loaded, cmds, idx, outcomes, pending>>

\* The second run writes its accepted event: append_events, told nothing of
\* the stream the event was accepted against.
OtherWrite ==
    /\ other.pc = "write"
    /\ other.pending # <<>>
    /\ log' = log \o other.pending
    /\ other' = [other EXCEPT !.pc = "done", !.pending = <<>>]
    /\ UNCHANGED <<prog, pc, pos, state, loaded, cmds, idx, outcomes, pending>>

\* The write of the second run fails and expect panics.
OtherWriteFail ==
    /\ other.pc = "write"
    /\ other.pending # <<>>
    /\ other' = [other EXCEPT !.pc = "fatal"]
    /\ UNCHANGED <<prog, log, pc, pos, state, loaded, cmds, idx, outcomes, pending>>

\* The command of the second run was rejected: nothing is written.
OtherNoWrite ==
    /\ other.pc = "write"
    /\ other.pending = <<>>
    /\ other' = [other EXCEPT !.pc = "done"]
    /\ UNCHANGED <<prog, log, pc, pos, state, loaded, cmds, idx, outcomes, pending>>

\* The first run builds its one command.
LoadDoneFirstWriter == LoadDoneOne(WriterCommands("u1"))

NextTwoWriters ==
    \/ Start
    \/ LoadStep
    \/ LoadOverflowPanic
    \/ LoadItemError
    \/ LoadDoneFirstWriter
    \/ BankHandle
    \/ BankHandleOverflowPanic
    \/ BankWrite
    \/ BankWriteFail
    \/ BankNoWrite
    \/ OtherLoad
    \/ OtherLoadPanic
    \/ OtherHandle
    \/ OtherHandleOverflowPanic
    \/ OtherWrite
    \/ OtherWriteFail
    \/ OtherNoWrite

SpecTwoWriters == InitTwoWriters /\ [][NextTwoWriters]_vars

----------------------------------------------------------------------------
(* C17 *)

\* Both runs have folded the same stream of pos events, and the stream has
\* grown by two events since.
BothWroteOnOneSnapshot ==
    /\ pc = "done"
    /\ other.pc = "done"
    /\ other.pos = pos
    /\ Len(log) = pos + 2

\* C17 (no expected-version check on append): a run that holds accepted
\* events can always write them, whatever the length of the stream and the
\* generation of its account; and when two runs have folded the same stream
\* and the stream has grown by two events, these are the accepted events of
\* both runs, in either order, both validated against the account folded
\* from that same stream, whose generation neither write was held against.
AppendIgnoresGeneration ==
    /\ (pc = "process" /\ idx = Len(cmds) /\ pending # <<>>) => ENABLED BankWrite
    /\ (other.pc = "write" /\ other.pending # <<>>) => ENABLED OtherWrite
    /\ BothWroteOnOneSnapshot =>
          /\ outcomes[1].result.ok
          /\ other.outcomes[1].result.ok
          /\ other.state = state
          /\ state = Project(prog, LoadedLog)
          /\ SubSeq(log, pos + 1, pos + 2)
                \in {AcceptedEvents(prog, outcomes) \o AcceptedEvents(prog, other.outcomes),
                     AcceptedEvents(prog, other.outcomes) \o AcceptedEvents(prog, outcomes)}

\* The lost update: both runs accepted a withdrawal against the same account
\* and both events are in the stream, though handle_bank_command rejects the
\* second on the account in which the first is applied; no amount and no sum
\* of the stream wraps, and the stream projects to a balance below zero.
LostUpdateWitness ==
    /\ BothWroteOnOneSnapshot
    /\ NoWrap(log)
    /\ outcomes[1].cmd.tpe.variant = "WithdrawFunds"
    /\ other.outcomes[1].cmd.tpe.variant = "WithdrawFunds"
    /\ state.generation = pos
    /\ ~handle_bank_command(Project(prog, SubSeq(log, 1, pos + 1)),
                            CommandOf(log[pos + 2]), "u1").ok
    /\ Project(prog, log).balance < 0

====
